---- MODULE Spec2Model ----
(***************************************************************************)
(* Model of the RigExpert AA-30 driver: the sweep engine REAA30.re_sample  *)
(* (src/src/re_aa30.py) with its line framer get_re/_readline and the      *)
(* serial transport it talks to.                                           *)
(*                                                                         *)
(* Byte strings are sequences of one-character strings.  The transport is  *)
(* a pair of logs: sp_out, the commands written since the last accepted    *)
(* sweep request (each with the answer it got), and sp_in, the bytes the   *)
(* device has sent and the driver has not read yet.  The device answers a  *)
(* command when it is written; a read(1) on an empty sp_in is the serial   *)
(* timeout (it returns b'').  Sweeps follow one another without limit; a   *)
(* sweep is requested with at most MaxStale unread bytes on the port.      *)
(* The user's 'Start Single Scan', 'Stop Scan', 'Reset AA-30', 'Load       *)
(* Scan' and 'Quit' actions run between sweeps and from the                *)
(* processEvents() calls of a sweep in flight.                             *)
(*                                                                         *)
(* Five specifications share the module: Spec, the sweep engine;           *)
(* SpecFramer, single runs of get_re on a byte sequence followed by        *)
(* silence; SpecApi, the calls of rigexpert_analyzer (src/rigexpert_api.py)*)
(* on its own port; SpecSwr, single calls of compute_swr_and_return_loss;  *)
(* SpecReader, get_re one loop iteration at a time, with the fairness of   *)
(* a thread that keeps running.                                            *)
(***************************************************************************)
EXTENDS Integers, Sequences, FiniteSets, TLC

\* ---------------------------------------------------------------- bounds
MaxNfreq == 2    \* largest nfreq of a sweep request
MaxStale == 4    \* most unread bytes on the port when a sweep is requested
MaxPieces == 4   \* pieces of a byte sequence given to the line framer
MaxBlank == 2    \* blank filler lines the device puts before an answer
MaxNpoints == 2  \* largest npoints of rigexpert_analyzer.sweep
MaxSamples == 2  \* longest arrays given to compute_swr_and_return_loss
MaxResets == 1   \* 'Reset AA-30' actions during one sweep
MaxSpin == 2     \* characters by which the growth of s is followed beyond buf

\* ------------------------------------------------------- bytes and text
CR == "\r"
LF == "\n"
None == <<"<None>">>        \* Python's None where a str is expected
OKstr == <<"O", "K">>
ERRORstr == <<"E", "R", "R", "O", "R">>
eol == <<CR, LF>>
leneol == Len(eol)

\* Python slice b[-k:] : the last k items (all of b when it is shorter)
LastN(b, k) == IF Len(b) <= k THEN b ELSE SubSeq(b, Len(b) - k + 1, Len(b))

\* Python slice b[0:k]
FirstN(b, k) == IF Len(b) <= k THEN b ELSE SubSeq(b, 1, k)

\* Python slice buf[-3:-1] : the two items before the last one
Slice31(buf) ==
    IF Len(buf) >= 3 THEN SubSeq(buf, Len(buf) - 2, Len(buf) - 1)
    ELSE IF Len(buf) = 2 THEN <<buf[1]>>
    ELSE <<>>

\* bytes compared with a str: in Python 3 the two types are never equal
BytesEqStr(b, s) == FALSE

\* ------------------------------------------------------------- get_re
\* One run of get_re over the pending bytes inp, silence afterwards.
\* outcome: "return" (r is the value), "IndexError" (buf[-2] on a one-byte
\* buffer), "hang" (the while loop never ends).
get_re_return(s, rest) ==
    [outcome |-> "return", r |-> IF Len(s) > 0 THEN s ELSE None, rest |-> rest]

RECURSIVE get_re_loop(_, _, _, _)
get_re_loop(inp, buf, s, crlf_count) ==
    LET got  == inp # <<>>
        buf1 == IF got THEN Append(buf, Head(inp)) ELSE buf
        rest == IF got THEN Tail(inp) ELSE inp
        last == buf1[Len(buf1)]
    IN  IF Len(buf1) = 0
          THEN [outcome |-> "return", r |-> None, rest |-> rest]
        ELSE IF last = CR
          THEN IF got THEN get_re_loop(rest, buf1, s, crlf_count)
                      ELSE [outcome |-> "hang", r |-> None, rest |-> rest]
        ELSE IF last = LF /\ Len(buf1) < 2
          THEN [outcome |-> "IndexError", r |-> None, rest |-> rest]
        ELSE IF last = LF /\ buf1[Len(buf1) - 1] = CR
          THEN IF crlf_count + 1 = 2
                 THEN get_re_return(s, rest)
                 ELSE get_re_loop(rest, buf1, s, crlf_count + 1)
        ELSE IF Slice31(buf1) = OKstr
          THEN get_re_return(Append(s, last), rest)
        ELSE IF got THEN get_re_loop(rest, buf1, Append(s, last), crlf_count)
                    ELSE [outcome |-> "hang", r |-> None, rest |-> rest]

get_re(inp) == get_re_loop(inp, <<>>, <<>>, 0)

\* ----------------------------------------------------------- _readline
RECURSIVE readline_loop(_, _)
readline_loop(inp, line) ==
    IF inp = <<>> THEN [line |-> line, rest |-> inp]
    ELSE LET line1 == Append(line, Head(inp))
         IN  IF LastN(line1, leneol) = eol
               THEN [line |-> line1, rest |-> Tail(inp)]
               ELSE readline_loop(Tail(inp), line1)

readline(inp) == readline_loop(inp, <<>>)

\* ------------------------------------------------- bytes.split, float
\* x.split(b','): the fields between the commas
RECURSIVE split_loop(_, _, _)
split_loop(x, cur, acc) ==
    IF x = <<>> THEN Append(acc, cur)
    ELSE IF Head(x) = "," THEN split_loop(Tail(x), <<>>, Append(acc, cur))
    ELSE split_loop(Tail(x), Append(cur, Head(x)), acc)

split(x) == split_loop(x, <<>>, <<>>)

Digits == {"0", "1", "2", "3", "4", "5", "6", "7", "8", "9"}

\* Py_ISSPACE: the six ASCII whitespace bytes float() strips, the last of
\* them the vertical tab (byte 0x0b)
Whitespace == {CR, LF, " ", "\t", "\f", ""}

RECURSIVE lstrip(_)
lstrip(b) == IF b # <<>> /\ Head(b) \in Whitespace THEN lstrip(Tail(b)) ELSE b

RECURSIVE rstrip(_)
rstrip(b) ==
    IF b # <<>> /\ b[Len(b)] \in Whitespace THEN rstrip(SubSeq(b, 1, Len(b) - 1))
    ELSE b

\* ------------------------------------------- whole numbers of any size
\* A natural number is the sequence of its limbs below Base, lowest limb
\* first, without a highest limb 0; <<>> is zero.  The doubles of the code
\* are computed with these numbers, exactly as IEEE 754 defines them.
LimbBits == 15
Base == 32768

\* the limbs without the zeros at the high end
big_norm(a) ==
    LET nz == {i \in 1..Len(a) : a[i] # 0}
    IN  IF nz = {} THEN <<>>
        ELSE SubSeq(a, 1, CHOOSE i \in nz : \A j \in nz : j <= i)

RECURSIVE big(_)
big(k) == IF k = 0 THEN <<>> ELSE <<k % Base>> \o big(k \div Base)

\* the number as an integer of the model (it is below 2^31)
RECURSIVE big_int(_)
big_int(a) == IF a = <<>> THEN 0 ELSE Head(a) + Base * big_int(Tail(a))

limb(a, i) == IF 1 <= i /\ i <= Len(a) THEN a[i] ELSE 0

\* 1, 0 or -1 as a is above, equal to or below b: the highest limb that
\* differs decides
big_cmp(a, b) ==
    LET df == {i \in 1..Len(a) : a[i] # limb(b, i)}
        top == CHOOSE i \in df : \A j \in df : j <= i
    IN  IF Len(a) > Len(b) THEN 1
        ELSE IF Len(a) < Len(b) THEN -1
        ELSE IF df = {} THEN 0
        ELSE IF a[top] > b[top] THEN 1
        ELSE -1

\* a + b.  The carry into limb i comes from a lower limb j whose sum
\* reaches Base, through limbs whose sums are all Base - 1.
big_add(a, b) ==
    LET n == IF Len(a) > Len(b) THEN Len(a) ELSE Len(b)
        s == [i \in 1..n |-> limb(a, i) + limb(b, i)]
        carry(i) == \E j \in 1..(i - 1) :
                       /\ s[j] >= Base
                       /\ \A k \in (j + 1)..(i - 1) : s[k] = Base - 1
    IN  [i \in 1..n |-> (s[i] + IF carry(i) THEN 1 ELSE 0) % Base]
          \o IF carry(n + 1) THEN <<1>> ELSE <<>>

\* a - b for a >= b.  The borrow from limb i comes from a lower limb j
\* whose difference is negative, through limbs whose differences are 0.
big_sub(a, b) ==
    LET s == [i \in 1..Len(a) |-> a[i] - limb(b, i)]
        borrow(i) == \E j \in 1..(i - 1) :
                        /\ s[j] < 0
                        /\ \A k \in (j + 1)..(i - 1) : s[k] = 0
    IN  big_norm([i \in 1..Len(a) |->
                    (s[i] - (IF borrow(i) THEN 1 ELSE 0) + Base) % Base])

\* a * k for 0 <= k < Base: the low halves of the products of the limbs
\* plus their high halves one limb higher
big_mul_small(a, k) ==
    big_add(big_norm([i \in 1..Len(a) |-> (a[i] * k) % Base]),
            big_norm(<<0>> \o [i \in 1..Len(a) |-> (a[i] * k) \div Base]))

\* a * b, by the halves of b
RECURSIVE big_mul(_, _)
big_mul(a, b) ==
    IF a = <<>> \/ b = <<>> THEN <<>>
    ELSE IF Len(b) = 1 THEN big_mul_small(a, b[1])
    ELSE LET h == Len(b) \div 2
         IN  big_add(big_mul(a, big_norm(SubSeq(b, 1, h))),
                     big_norm([i \in 1..h |-> 0]
                                \o big_mul(a, SubSeq(b, h + 1, Len(b)))))

\* a * 2^d and a \div 2^d
big_shl(a, d) ==
    big_norm([i \in 1..(d \div LimbBits) |-> 0]
               \o big_mul_small(a, 2 ^ (d % LimbBits)))
big_shr(a, d) ==
    LET w == d \div LimbBits
        r == d % LimbBits
    IN  big_norm([i \in 1..(IF Len(a) > w THEN Len(a) - w ELSE 0) |->
                    a[i + w] \div 2 ^ r
                      + (limb(a, i + w + 1) % 2 ^ r) * 2 ^ (LimbBits - r)])

\* the number of bits of a number
big_bits(a) ==
    IF a = <<>> THEN 0
    ELSE LimbBits * (Len(a) - 1)
           + CHOOSE k \in 1..LimbBits : 2 ^ (k - 1) <= a[Len(a)] /\ a[Len(a)] < 2 ^ k

\* 10^k, by squaring
RECURSIVE big_pow10(_)
big_pow10(k) ==
    IF k = 0 THEN <<1>>
    ELSE IF k % 2 = 1 THEN big_mul_small(big_pow10(k - 1), 10)
    ELSE LET h == big_pow10(k \div 2) IN big_mul(h, h)

\* the number written with the decimal digits d, by the halves of d
RECURSIVE big_digits(_)
big_digits(d) ==
    IF d = <<>> THEN <<>>
    ELSE IF Len(d) = 1
      THEN big(CHOOSE v \in 0..9 :
                 <<"0", "1", "2", "3", "4", "5", "6", "7", "8", "9">>[v + 1] = d[1])
    ELSE LET h == Len(d) \div 2
         IN  big_add(big_mul(big_digits(SubSeq(d, 1, h)), big_pow10(Len(d) - h)),
                     big_digits(SubSeq(d, h + 1, Len(d))))

\* the largest d with b * d <= a, from d down
RECURSIVE big_digit_fit(_, _, _)
big_digit_fit(a, b, d) ==
    IF big_cmp(big_mul_small(b, d), a) <= 0 THEN d ELSE big_digit_fit(a, b, d - 1)

\* Long division of a by b for a highest limb of b from Base / 2 on: the
\* limbs j, j-1, .. 1 of the quotient on top of the limbs q, with the
\* remainder r < b of the limbs of a above j.  The two highest limbs of
\* the running remainder by the highest limb of b give the next limb of
\* the quotient, or a number at most 2 above it.
RECURSIVE big_divmod_from(_, _, _, _, _)
big_divmod_from(a, b, j, r, q) ==
    IF j = 0 THEN [q |-> big_norm(q), r |-> r]
    ELSE LET cur == big_norm(<<limb(a, j)>> \o r)
             est == (limb(cur, Len(b) + 1) * Base + limb(cur, Len(b)))
                      \div b[Len(b)]
             d   == big_digit_fit(cur, b, IF est < Base THEN est ELSE Base - 1)
         IN  big_divmod_from(a, b, j - 1, big_sub(cur, big_mul_small(b, d)),
                             <<d>> \o q)

\* ---------------------------------------------------------- the doubles
\* A double is sign * mant * 2^exp with mant odd (a number of at most 53
\* bits, <<>> for zero), or an infinity, or nan.  -0.0 and 0.0, equal in
\* Python, are one value.  ok is TRUE for every double: it is FALSE in what
\* float() gives for a byte string that raises ValueError.
Zero == [ok |-> TRUE, kind |-> "finite", sign |-> 1, mant |-> <<>>, exp |-> 0]
Inf(sign) == [ok |-> TRUE, kind |-> "inf", sign |-> sign, mant |-> <<>>, exp |-> 0]

\* sign * m * 2^x with the mantissa made odd: without the z zero bits at
\* its low end.  From 2^1024 on the double is infinite.
odd_form(sign, m, x) ==
    LET j == CHOOSE i \in 1..Len(m) : m[i] # 0 /\ \A k \in 1..(i - 1) : m[k] = 0
        z == LimbBits * (j - 1)
               + CHOOSE k \in 0..(LimbBits - 1) :
                   m[j] % 2 ^ k = 0 /\ m[j] % 2 ^ (k + 1) # 0
    IN  IF m = <<>> THEN Zero
        ELSE IF x + big_bits(m) > 1024 THEN Inf(sign)
        ELSE [ok |-> TRUE, kind |-> "finite", sign |-> sign,
              mant |-> big_shr(m, z), exp |-> x + z]

\* the double nearest to sign * (mag + rest) * 2^x, ties to the even
\* mantissa, where 0 < rest < 1 when sticky and rest = 0 otherwise: 53 bits
\* are kept, fewer below 2^-1022, and from 2^1024 on the result is infinite
round_double(sign, mag, x, sticky) ==
    LET fit == x + big_bits(mag) - 53
        xt  == IF fit < -1074 THEN -1074 ELSE fit
        q   == big_shr(mag, xt - x)
        \* the part cut off is above half a unit, or half a unit with an
        \* odd q or something below it
        up  == \E c \in {big_cmp(big_sub(mag, big_shl(q, xt - x)),
                                 big_shl(<<1>>, xt - x - 1))} :
                 c > 0 \/ (c = 0 /\ (sticky \/ limb(q, 1) % 2 = 1))
    IN  IF xt <= x THEN odd_form(sign, mag, x)
        ELSE odd_form(sign, IF up THEN big_add(q, <<1>>) ELSE q, xt)

\* the double nearest to sign * num / den: the quotient is taken to 58 or
\* 59 bits (4 limbs), with den shifted to fill its highest limb
ratio_double(sign, num, den) ==
    LET s  == big_bits(num) - big_bits(den) - 58
        s0 == IF s > 0 THEN s ELSE 0
        over == (big_bits(den) + s0) % LimbBits
        sb == IF over = 0 THEN s0 ELSE s0 + LimbBits - over
        a  == big_shl(num, sb - s)
        qr == big_divmod_from(a, big_shl(den, sb), 4,
                              IF Len(a) > 4 THEN SubSeq(a, 5, Len(a)) ELSE <<>>,
                              <<>>)
    IN  IF num = <<>> THEN Zero ELSE round_double(sign, qr.q, s, qr.r # <<>>)

\* the double nearest to sign * md * 10^e10 for decimal digits md without
\* leading zeros
decimal_double(sign, md, e10) ==
    IF md = <<>> THEN Zero
    ELSE IF Len(md) + e10 > 309 THEN Inf(sign)      \* from 10^309 on
    ELSE IF Len(md) + e10 < -323 THEN Zero          \* below 10^-324
    ELSE IF e10 >= 0
      THEN round_double(sign, big_mul(big_digits(md), big_pow10(e10)), 0, FALSE)
    ELSE ratio_double(sign, big_digits(md), big_pow10(0 - e10))

\* a + b of finite doubles, rounded
dbl_add(a, b) ==
    LET x  == IF a.exp < b.exp THEN a.exp ELSE b.exp
        ma == big_shl(a.mant, a.exp - x)
        mb == big_shl(b.mant, b.exp - x)
        a_above == big_cmp(ma, mb) > 0
    IN  IF a.mant = <<>> THEN b
        ELSE IF b.mant = <<>> THEN a
        ELSE round_double(IF a.sign = b.sign \/ a_above THEN a.sign ELSE b.sign,
                          IF a.sign = b.sign THEN big_add(ma, mb)
                          ELSE IF a_above THEN big_sub(ma, mb)
                          ELSE big_sub(mb, ma),
                          x, FALSE)

\* a / 2.0 of a finite double, rounded
dbl_half(a) == round_double(a.sign, a.mant, a.exp - 1, FALSE)

\* int(p) for a finite double p below 2^31: its whole part, towards zero
dbl_int(p) ==
    p.sign * big_int(IF p.exp >= 0 THEN big_shl(p.mant, p.exp)
                     ELSE big_shr(p.mant, 0 - p.exp))

\* int(a * 1e6) for a finite double a: the product rounded to a double,
\* then its whole part
dbl_hz(a) ==
    dbl_int(round_double(a.sign, big_mul(a.mant, big(1000000)), a.exp, FALSE))

\* -------------------------------------------------------------- float()
\* digits without their leading zeros
drop_leading_zeros(d) ==
    LET nz == {i \in 1..Len(d) : d[i] # "0"}
    IN  IF nz = {} THEN <<>>
        ELSE SubSeq(d, CHOOSE i \in nz : \A j \in nz : i <= j, Len(d))

\* the value of the digits of an exponent as the string-to-double routine
\* of CPython takes it: leading zeros skipped, and MAX_ABS_EXP (1100000000)
\* for an exponent of more than nine digits
digits_value(b) ==
    IF Len(drop_leading_zeros(b)) > 9 THEN 1100000000
    ELSE big_int(big_digits(drop_leading_zeros(b)))

\* a run of digits of a float literal: digits and, where the Python of the
\* file allows them (3.6 and later), single underscores between two digits
digit_run(d, underscores) ==
    /\ d # <<>>
    /\ \A i \in 1..Len(d) :
         \/ d[i] \in Digits
         \/ /\ underscores
            /\ d[i] = "_"
            /\ 1 < i /\ i < Len(d)
            /\ d[i - 1] \in Digits /\ d[i + 1] \in Digits
only_digits(d) == SelectSeq(d, LAMBDA c : c \in Digits)

\* the first index of b that holds one of the bytes cs, 0 when none does
find(b, cs) ==
    LET at == {i \in 1..Len(b) : b[i] \in cs}
    IN  IF at = {} THEN 0 ELSE CHOOSE i \in at : \A j \in at : i <= j

\* float(b) for a byte string b: optional whitespace around an optional
\* sign and then inf, infinity or nan in any case, or a decimal literal
\* (digits with an optional point, an optional exponent after e or E, and
\* underscores between digits where Python allows them).  The result is
\* the double Python makes of the literal: the nearest one, 0.0 below the
\* smallest double and inf above the largest.  ok = FALSE stands for the
\* ValueError of a byte string that is no literal, or of a literal with
\* more than 10^9 digits (MAX_DIGITS of the string-to-double routine of
\* CPython, for the digits from the first one that is not a zero and for
\* the digits after the point).
float_of(t, underscores) ==
    LET sg   == IF t # <<>> /\ Head(t) = "-" THEN -1 ELSE 1
        body == IF t # <<>> /\ Head(t) \in {"-", "+"} THEN Tail(t) ELSE t
        word == [i \in 1..Len(body) |->         \* inf, infinity, nan in any case
                   CASE body[i] = "I" -> "i" [] body[i] = "N" -> "n"
                     [] body[i] = "F" -> "f" [] body[i] = "T" -> "t"
                     [] body[i] = "Y" -> "y" [] body[i] = "A" -> "a"
                     [] OTHER -> body[i]]
        ei   == find(body, {"e", "E"})
        mant == IF ei = 0 THEN body ELSE SubSeq(body, 1, ei - 1)
        ex   == IF ei = 0 THEN <<>> ELSE SubSeq(body, ei + 1, Len(body))
        exneg == ex # <<>> /\ Head(ex) = "-"
        exd  == IF ex # <<>> /\ Head(ex) \in {"-", "+"} THEN Tail(ex) ELSE ex
        pi   == find(mant, {"."})
        ip   == IF pi = 0 THEN mant ELSE SubSeq(mant, 1, pi - 1)
        fp   == IF pi = 0 THEN <<>> ELSE SubSeq(mant, pi + 1, Len(mant))
        fd   == only_digits(fp)
        md   == drop_leading_zeros(only_digits(ip) \o fd)
        ndigits == IF drop_leading_zeros(only_digits(ip)) = <<>>
                     THEN Len(drop_leading_zeros(fd))
                   ELSE Len(drop_leading_zeros(only_digits(ip))) + Len(fd)
        en   == IF ei = 0 THEN 0
                ELSE IF exneg THEN 0 - digits_value(only_digits(exd))
                ELSE digits_value(only_digits(exd))
        v    == IF word \in {<<"i", "n", "f">>,
                             <<"i", "n", "f", "i", "n", "i", "t", "y">>}
                  THEN Inf(sg)
                ELSE IF word = <<"n", "a", "n">>
                  THEN [ok |-> TRUE, kind |-> "nan", sign |-> 1, mant |-> <<>>,
                        exp |-> 0]
                ELSE decimal_double(sg, md, en - Len(fd))
    IN  IF \/ word \in {<<"i", "n", "f">>, <<"n", "a", "n">>,
                        <<"i", "n", "f", "i", "n", "i", "t", "y">>}
           \/ /\ ip # <<>> \/ fp # <<>>
              /\ ip = <<>> \/ digit_run(ip, underscores)
              /\ fp = <<>> \/ digit_run(fp, underscores)
              /\ ei = 0 \/ digit_run(exd, underscores)
              /\ ndigits <= 1000000000 /\ Len(fd) <= 1000000000
          THEN v
        ELSE [ok |-> FALSE, kind |-> "none", sign |-> 1, mant |-> <<>>, exp |-> 0]

\* float() of re_aa30.py, which is Python 3 (print calls, an f-string)
float(b) == float_of(rstrip(lstrip(b)), TRUE)

\* float() of rigexpert_api.py, which is Python 2 (the print statement of
\* line 76): no underscores in a literal
float_py2(b) == float_of(rstrip(lstrip(b)), FALSE)

\* float(f) > 0.0 (False for nan)
positive(f) ==
    /\ f.sign = 1
    /\ f.kind = "inf" \/ (f.kind = "finite" /\ f.mant # <<>>)

\* a float as a value of the model: the whole number itself when it is
\* one below 2^31, and the double otherwise
number(f) ==
    IF f.kind = "finite" /\ f.exp >= 0 /\ big_bits(f.mant) + f.exp <= 31
      THEN f.sign * big_int(big_shl(f.mant, f.exp))
    ELSE [kind |-> f.kind, sign |-> f.sign, mant |-> f.mant, exp |-> f.exp]

\* ---------------------------------------------------- the device side
\* What the device may answer to a scalar command (ON, FQ, sw, OFF):
\* the acknowledgement, an error text, or nothing at all.
AckOK  == <<CR, LF, "O", "K", CR, LF>>
AckERR == <<CR, LF, "E", "R", "R", "O", "R", CR, LF>>
ScalarResponses == {AckOK, AckERR, <<>>}
OffResponses == {AckOK, <<>>}

\* Lines of a sample stream
\* a sample with decimal fields: frequency 3.5, r 50.0, x .25
ValidLine   == <<"3", ".", "5", ",", "5", "0", ".", "0", ",", ".", "2", "5", CR, LF>>
NonPosLine  == <<"0", ",", "5", ",", "0", CR, LF>>   \* frequency not positive
BlankLine   == <<CR, LF>>
\* a sample whose impedance is -z0: r -50, x 0
MinusZ0Line == <<"1", ",", "-", "5", "0", ",", "0", CR, LF>>
OKLine      == <<"O", "K", CR, LF>>
ERRORLine   == <<"E", "R", "R", "O", "R", CR, LF>>
GarbageLine == <<"1", ",", "K", CR, LF>>             \* not three numbers
DataLines == {ValidLine, NonPosLine, BlankLine, MinusZ0Line}
EndLines  == {OKLine, ERRORLine, GarbageLine, <<>>}

RECURSIVE Streams(_)
Streams(k) ==
    IF k = 0 THEN {<<>>}
    ELSE {l \o st : l \in DataLines, st \in Streams(k - 1)}

RECURSIVE Repeat(_, _)
Repeat(line, k) == IF k = 0 THEN <<>> ELSE line \o Repeat(line, k - 1)

\* Answers to FRX<nfreq>: silence; the stream as documented, nfreq (or the
\* nfreq+1 steps of the module docstring) sample lines followed by OK; or
\* an acknowledgement followed by up to nfreq+1 lines of any kind and the
\* end of the stream (OK, ERROR, a malformed line, or silence).
FrxResponses(nfreq) ==
    {<<>>}
    \cup {Repeat(ValidLine, k) \o OKLine : k \in {nfreq, nfreq + 1}}
    \cup {AckOK \o st \o e : st \in UNION {Streams(k) : k \in 0..(nfreq + 1)},
                             e \in EndLines}

\* ------------------------------------------------------------- requests
\* Frequencies of a request in kHz (the code takes MHz floats): the default
\* scan 3.5 .. 28.0 MHz with any point count, and the band presets '40'
\* (7.0 .. 7.3 MHz) and '40ph' (7.1 .. 7.3 MHz).
Requests ==
    [start_freq : {3500}, end_freq : {28000}, nfreq : 1..MaxNfreq]
      \cup {[start_freq |-> 7000, end_freq |-> 7300, nfreq |-> 1],
            [start_freq |-> 7100, end_freq |-> 7300, nfreq |-> 1]}

\* The code computes centre and span with doubles and int() drops the
\* fraction, which for some requests gives 1 Hz less than the whole number
\* of Hz: 7.3 - 7.0 is the double 0.2999999999999998 and (7.3 - 7.0) * 1e6
\* is 299999.9999999998.  The model computes them with the same doubles.

\* the double a frequency of k kHz is as a float of MHz
MHz(k) == ratio_double(IF k < 0 THEN -1 ELSE 1, big(IF k < 0 THEN 0 - k ELSE k),
                       big(1000))
\* lines 526 and 528: int((start_freq + (end_freq - start_freq)/2.0) * 1e6);
\* end_freq - start_freq is end_freq + (-start_freq), and MHz(-k) is -MHz(k)
fq_hz(q) ==
    dbl_hz(dbl_add(MHz(q.start_freq),
                   dbl_half(dbl_add(MHz(q.end_freq), MHz(0 - q.start_freq)))))
\* lines 527 and 537: int((end_freq - start_freq) * 1e6)
span_hz(q) ==
    dbl_hz(dbl_add(MHz(q.end_freq), MHz(0 - q.start_freq)))

\* What the device answered to a command, as far as the sweep claims need
\* it: the plain acknowledgement, a sample stream as documented (count, or
\* the count+1 steps of the module docstring, valid lines followed by OK),
\* nothing, or anything else.
AnswerKind(c, a, resp) ==
    IF resp = <<>> THEN "none"
    ELSE IF c = "FRX" /\ resp = Repeat(ValidLine, a) \o OKLine THEN "stream"
    ELSE IF c = "FRX" /\ resp = Repeat(ValidLine, a + 1) \o OKLine THEN "stream+1"
    ELSE IF c # "FRX" /\ resp = AckOK THEN "ack"
    ELSE "other"

\* What the get_re that followed the command gave back, as the code tells
\* the cases apart: 'OK', None, some other text, or no return at all.
AckKind(g) ==
    IF g.outcome # "return" THEN g.outcome
    ELSE IF g.r = OKstr THEN "OK"
    ELSE IF g.r = None THEN "None"
    ELSE "text"

\* One exchange on the port: the command written with its argument, the
\* kind of answer the device gave and the kind of value get_re returned.
Cmd(c, a, resp, g) ==
    [cmd |-> c, arg |-> a, answer |-> AnswerKind(c, a, resp), ack |-> AckKind(g)]

\* The log of a sweep keeps every command with its argument, the answer to
\* FRX, and the get_re result of the latest exchange only ("-": not kept).
Log(out, e) ==
    Append([i \in 1..Len(out) |->
              [out[i] EXCEPT !.ack = "-",
                             !.answer = IF out[i].cmd = "FRX" THEN @ ELSE "-"]],
           e)
NoArg == -1

\* np.linspace(start, end, num = nfreq + 1)[i], times nfreq
linspace(q, i) == q.start_freq * q.nfreq + i * (q.end_freq - q.start_freq)

\* entries of the arrays freqlist, rx, zx
Pre(v) == [tag |-> "pre", v |-> v]     \* value filled in before the sweep
Dev(v) == [tag |-> "dev", v |-> v]     \* the float of a device line
NaN    == [tag |-> "nan", v |-> 0]     \* np.nan

\* freqlist[n] = float(f): the array entry that holds the float f
stored(f) == IF f.kind = "nan" THEN NaN ELSE Dev(f)

\* ---------------------------------------------------------------- state
VARIABLES
    in_sampling,   \* self.in_sampling
    stopscan,      \* self.stopscan
    sp_in,         \* bytes sent by the device, not yet read from re_sp
    sp_out,        \* exchanges on re_sp since the sweep was accepted
    pc,            \* position of the thread: idle, a place in re_sample, or
                   \* exited once exit() has ended the process between sweeps
    exit,          \* how the last accepted re_sample left: return / exception
    req,           \* arguments of the accepted re_sample
    n,             \* loop index of re_sample
    freqlist, rx, zx,   \* the arrays of re_sample
    rtl_len,       \* len(rtl)
    pen,           \* whether the local pen is bound
    nread,         \* lines of three fields read by _readline in this sweep
    rejected,      \* a re_sample call was ignored since the last accepted one
    fin,           \* framer runs: the bytes the device sends before it falls silent
    fres,          \* framer runs: what get_re made of them
    ser_in,        \* rigexpert_analyzer: bytes sent by the device, not yet read
    ser_out,       \* rigexpert_analyzer: commands written by the latest call
    self_cfreq_hz, \* rigexpert_analyzer.cfreq_hz
    self_span_hz,  \* rigexpert_analyzer.span_hz
    ser_open,      \* rigexpert_analyzer.ser is open
    api_last,      \* rigexpert_analyzer: the latest call and how it ended
    fq_acked,      \* a cfreq() call of this session was acknowledged OK
    sw_acked,      \* a span() call of this session was acknowledged OK
    ser_answer,    \* rigexpert_analyzer: what the device sent to the latest call
    re,            \* compute_swr_and_return_loss: the array re
    im,            \* compute_swr_and_return_loss: the array im
    swr_rtl,       \* compute_swr_and_return_loss: how the call ended, (swr, rtl)
    g_in,          \* get_re, step by step: bytes sent by the device, not yet read
    g_buf,         \* get_re, step by step: the local buf
    g_s,           \* get_re, step by step: the local s
    g_crlf,        \* get_re, step by step: the local crlf_count
    g_pc,          \* get_re, step by step: in the loop, or how the call ended
    g_r,           \* get_re, step by step: the value returned
    g_reads        \* get_re, step by step: calls of read(1) so far, modulo 2

flags  == <<in_sampling, stopscan>>
port   == <<sp_in, sp_out>>
arrays == <<freqlist, rx, zx>>
locals == <<req, n, freqlist, rx, zx, rtl_len, pen, nread>>
framer == <<fin, fres>>
api    == <<ser_in, ser_out, self_cfreq_hz, self_span_hz, ser_open, api_last,
            fq_acked, sw_acked, ser_answer>>
engine == <<re, im, swr_rtl>>
reader == <<g_in, g_buf, g_s, g_crlf, g_pc, g_r, g_reads>>
sweeper == <<in_sampling, stopscan, sp_in, sp_out, pc, exit, req, n,
             freqlist, rx, zx, rtl_len, pen, nread, rejected>>
vars   == <<in_sampling, stopscan, sp_in, sp_out, pc, exit, req, n,
            freqlist, rx, zx, rtl_len, pen, nread, rejected,
            fin, fres, ser_in, ser_out, self_cfreq_hz, self_span_hz, ser_open,
            api_last, fq_acked, sw_acked, ser_answer, re, im, swr_rtl,
            g_in, g_buf, g_s, g_crlf, g_pc, g_r, g_reads>>

NoReq == [start_freq |-> 0, end_freq |-> 0, nfreq |-> 0]

\* REAA30 after construction, the port quiet
InitSweep ==
    /\ in_sampling = FALSE
    /\ stopscan = FALSE
    /\ sp_in = <<>>
    /\ sp_out = <<>>
    /\ pc = "idle"
    /\ exit = "none"
    /\ req = NoReq
    /\ n = 0
    /\ freqlist = <<>>
    /\ rx = <<>>
    /\ zx = <<>>
    /\ rtl_len = 0
    /\ pen = FALSE
    /\ nread = 0
    /\ rejected = FALSE

\* no framer run is set up
Pending == [outcome |-> "pending", r |-> None, rest |-> <<>>]
FramerIdle ==
    /\ fin = <<>>
    /\ fres = Pending

\* rigexpert_analyzer after __init__ (lines 16-21): ON was acknowledged,
\* both cached values are 0
NoCall == [call |-> "none", arg |-> 0, r |-> <<>>, exit |-> "none",
           result |-> <<>>, tick |-> 0]
ApiNew ==
    /\ ser_in = <<>>
    /\ ser_out = <<>>
    /\ self_cfreq_hz = 0
    /\ self_span_hz = 0
    /\ ser_open = TRUE
    /\ api_last = NoCall
    /\ fq_acked = FALSE
    /\ sw_acked = FALSE
    /\ ser_answer = <<>>

\* compute_swr_and_return_loss not called
NotRun == [exit |-> "pending", rho |-> <<>>, swr |-> <<>>, rtl |-> <<>>]
EngineIdle ==
    /\ re = <<>>
    /\ im = <<>>
    /\ swr_rtl = NotRun

\* get_re not called
ReaderIdle ==
    /\ g_in = <<>>
    /\ g_buf = <<>>
    /\ g_s = <<>>
    /\ g_crlf = 0
    /\ g_pc = "idle"
    /\ g_r = None
    /\ g_reads = 0

Init == InitSweep /\ FramerIdle /\ ApiNew /\ EngineIdle /\ ReaderIdle

\* places of re_sample where plot_results runs app.processEvents()
EventPoints == {"re_on", "plot"}

\* ------------------------------------------------------ leaving, hanging
\* control leaves re_sample: by return, or by an exception that propagates
Leave(how, out, inp, busy) ==
    /\ pc' = "idle"
    /\ exit' = how
    /\ sp_out' = out
    /\ sp_in' = inp
    /\ in_sampling' = busy
    /\ UNCHANGED <<stopscan, rejected>>

\* get_re never returns: the thread stays inside re_sample
Stuck(out, inp, busy) ==
    /\ pc' = "hung"
    /\ sp_out' = out
    /\ sp_in' = inp
    /\ in_sampling' = busy
    /\ UNCHANGED <<exit, stopscan, rejected>>

\* re_off() followed by what the caller does next: on the normal path the
\* caller sets in_sampling to busyAfter and leaves by `how`.
re_off(out, inp, busyDuring, how, busyAfter) ==
    \E resp \in OffResponses :
       LET g    == get_re(inp \o resp)
           out2 == Log(out, Cmd("OFF", NoArg, resp, g))
       IN  IF g.outcome = "hang" THEN Stuck(out2, g.rest, busyDuring)
           ELSE IF g.outcome = "IndexError"
             THEN Leave("IndexError", out2, g.rest, busyDuring)
           ELSE Leave(how, out2, g.rest, busyAfter)

\* ------------------------------------------------------------ stop_scan
StopScan ==
    /\ UNCHANGED <<framer, api, engine, reader>>
    /\ pc \in EventPoints \cup {"idle"}
    /\ exit # "SystemExit"
    /\ stopscan = FALSE
    /\ stopscan' = TRUE
    /\ UNCHANGED <<in_sampling, port, pc, exit, locals, rejected>>

\* ------------------------------------------------------------ resetAA30
\* resets during the running sweep so far: re_sample itself writes OFF
\* only when it leaves, so every OFF in the log of a running sweep is one
Resets(out) == Cardinality({i \in 1..Len(out) : out[i].cmd = "OFF"})

\* An exception raised by the slot while processEvents() runs it either
\* goes up into the sweep that called processEvents(), or is reported by
\* the event loop and the sweep goes on: the binding decides.
SlotErrorPropagates == {TRUE, FALSE}

\* the slot is over and whoever ran it goes on
SlotDone(out, inp) ==
    /\ sp_out' = out
    /\ sp_in' = inp
    /\ exit' = IF pc = "idle" THEN "none" ELSE exit
    /\ UNCHANGED <<flags, pc, rejected>>

\* lines 424-426, the 'Reset AA-30' action of command_dispatcher (line
\* 343): re_off() then re_on(), between sweeps or from the processEvents()
\* of a running sweep.  Between sweeps the log starts again with the
\* commands of the reset and no sweep has just ended.
resetAA30 ==
    /\ UNCHANGED <<framer, api, engine, reader>>
    /\ pc \in EventPoints \cup {"idle"}
    /\ exit # "SystemExit"
    /\ pc # "idle" => Resets(sp_out) < MaxResets
    /\ pc = "idle" => Len(sp_in) <= MaxStale
    /\ \E r1 \in OffResponses, r2 \in ScalarResponses :
         LET base == IF pc = "idle" THEN <<>> ELSE sp_out
             g1   == get_re(sp_in \o r1)
             out1 == Log(base, Cmd("OFF", NoArg, r1, g1))
             g2   == get_re(g1.rest \o r2)
             out2 == Log(out1, Cmd("ON", NoArg, r2, g2))
             raised(out, inp) ==
                 \E up \in SlotErrorPropagates :
                    IF pc # "idle" /\ up
                      THEN Leave("IndexError", out, inp, in_sampling)
                      ELSE SlotDone(out, inp)
         IN  IF g1.outcome = "hang" THEN Stuck(out1, g1.rest, in_sampling)
             ELSE IF g1.outcome = "IndexError" THEN raised(out1, g1.rest)
             ELSE IF g2.outcome = "hang" THEN Stuck(out2, g2.rest, in_sampling)
             ELSE IF g2.outcome = "IndexError" THEN raised(out2, g2.rest)
             ELSE SlotDone(out2, g2.rest)
    /\ UNCHANGED locals

\* ---------------------------------------- command_dispatcher, the rest
\* lines 349-353, the 'Load Scan' action: self.getFilename() is no method
\* of REAA30 and raises AttributeError in the slot.  From the
\* processEvents() of a running sweep the error goes up into the sweep,
\* which leaves with nothing written, or the event loop reports it;
\* between sweeps it changes nothing.
LoadScan ==
    /\ UNCHANGED <<framer, api, engine, reader>>
    /\ pc \in EventPoints \cup {"idle"}
    /\ exit # "SystemExit"
    /\ \E up \in SlotErrorPropagates :
         IF pc # "idle" /\ up
           THEN Leave("AttributeError", sp_out, sp_in, in_sampling)
           ELSE UNCHANGED <<flags, port, pc, exit, rejected>>
    /\ UNCHANGED locals

\* lines 283-284, the 'Quit' action: exit() raises SystemExit, which no
\* event loop holds back.  A running sweep is left by it with nothing
\* written; between sweeps the process just ends (pc "exited").  Nothing
\* runs after either.
Quit ==
    /\ UNCHANGED <<framer, api, engine, reader>>
    /\ pc \in EventPoints \cup {"idle"}
    /\ exit # "SystemExit"
    /\ IF pc # "idle"
         THEN Leave("SystemExit", sp_out, sp_in, in_sampling)
         ELSE pc' = "exited" /\ UNCHANGED <<flags, port, exit, rejected>>
    /\ UNCHANGED locals

\* ------------------------------------------------------------ re_sample
\* range(len(freqlist)): the number of loop iterations
LoopLen(nfreq) == nfreq + 1

\* lines 509-523: the call, up to the processEvents() of the first plot,
\* made by command_dispatcher or repeat_scan (lines 303-334, 362), which
\* unpack what it returns into (fr, rx, zx, rtl).  While a sweep is in
\* flight re_sample returns None at line 511 and the unpacking raises
\* TypeError in the slot: inside the processEvents() of the running sweep
\* the error goes up into that sweep, or the event loop reports it.
ReSample ==
    /\ UNCHANGED <<framer, api, engine, reader>>
    /\ pc \in EventPoints \cup {"idle"}
    /\ exit # "SystemExit"
    /\ \E q \in Requests :
         IF in_sampling
           THEN /\ rejected' = TRUE
                /\ \E up \in SlotErrorPropagates :
                     IF pc # "idle" /\ up
                       THEN /\ pc' = "idle"
                            /\ exit' = "TypeError"
                            /\ UNCHANGED <<flags, port, locals>>
                       ELSE UNCHANGED <<flags, port, pc, exit, locals>>
           ELSE /\ Len(sp_in) <= MaxStale
                /\ rejected' = FALSE
                /\ in_sampling' = TRUE
                /\ stopscan' = FALSE
                /\ req' = q
                /\ n' = 0
                /\ freqlist' = [i \in 1..LoopLen(q.nfreq) |-> Pre(linspace(q, i - 1))]
                /\ rx' = [i \in 1..LoopLen(q.nfreq) |-> Pre(0)]
                /\ zx' = [i \in 1..LoopLen(q.nfreq) |-> Pre(0)]
                /\ rtl_len' = LoopLen(q.nfreq)
                /\ pen' = FALSE
                /\ nread' = 0
                /\ sp_out' = <<>>
                /\ pc' = "re_on"
                /\ exit' = "none"
                /\ UNCHANGED sp_in

\* line 525: re_on() sends ON, reads the answer and only prints it
ReOn ==
    /\ UNCHANGED <<framer, api, engine, reader>>
    /\ pc = "re_on"
    /\ \E resp \in ScalarResponses :
         LET g   == get_re(sp_in \o resp)
             out == Log(sp_out, Cmd("ON", NoArg, resp, g))
         IN  /\ IF g.outcome = "hang" THEN Stuck(out, g.rest, in_sampling)
                ELSE IF g.outcome = "IndexError"
                  THEN Leave("IndexError", out, g.rest, in_sampling)
                ELSE /\ pc' = "fq"
                     /\ sp_out' = out
                     /\ sp_in' = g.rest
                     /\ UNCHANGED <<flags, exit, rejected>>
             /\ UNCHANGED locals

\* lines 526-536: FQ and its acknowledgement
SetFQ ==
    /\ UNCHANGED <<framer, api, engine, reader>>
    /\ pc = "fq"
    /\ \E resp \in ScalarResponses :
         LET g   == get_re(sp_in \o resp)
             out == Log(sp_out, Cmd("FQ", fq_hz(req), resp, g))
         IN  /\ IF g.outcome = "hang" THEN Stuck(out, g.rest, in_sampling)
                ELSE IF g.outcome = "IndexError"
                  THEN Leave("IndexError", out, g.rest, in_sampling)
                ELSE IF g.r = OKstr
                  THEN /\ pc' = "sw"
                       /\ sp_out' = out
                       /\ sp_in' = g.rest
                       /\ UNCHANGED <<flags, exit, rejected>>
                ELSE IF g.r = None
                  \* '{:s}'.format(None) raises before re_off()
                  THEN Leave("TypeError", out, g.rest, in_sampling)
                ELSE re_off(out, g.rest, in_sampling,
                            "Exception: Failed to set frequency", FALSE)
             /\ UNCHANGED locals

\* lines 537-545: the span command (spelled sw) and its acknowledgement
SetSW ==
    /\ UNCHANGED <<framer, api, engine, reader>>
    /\ pc = "sw"
    /\ \E resp \in ScalarResponses :
         LET g   == get_re(sp_in \o resp)
             out == Log(sp_out, Cmd("sw", span_hz(req), resp, g))
         IN  /\ IF g.outcome = "hang" THEN Stuck(out, g.rest, in_sampling)
                ELSE IF g.outcome = "IndexError"
                  THEN Leave("IndexError", out, g.rest, in_sampling)
                ELSE IF g.r = OKstr
                  THEN /\ pc' = "frx"
                       /\ sp_out' = out
                       /\ sp_in' = g.rest
                       /\ UNCHANGED <<flags, exit, rejected>>
                ELSE re_off(out, g.rest, in_sampling,
                            "Exception: Failed to set sweep range", FALSE)
             /\ UNCHANGED locals

\* lines 546-553: FRX and the acknowledgement read that follows it
SendFRX ==
    /\ UNCHANGED <<framer, api, engine, reader>>
    /\ pc = "frx"
    /\ \E resp \in FrxResponses(req.nfreq) :
         LET g   == get_re(sp_in \o resp)
             out == Log(sp_out, Cmd("FRX", req.nfreq, resp, g))
         IN  /\ IF g.outcome = "hang" THEN Stuck(out, g.rest, in_sampling)
                ELSE IF g.outcome = "IndexError"
                  THEN Leave("IndexError", out, g.rest, in_sampling)
                ELSE IF g.r = OKstr
                  THEN /\ pc' = "loop"
                       /\ sp_out' = out
                       /\ sp_in' = g.rest
                       /\ UNCHANGED <<flags, exit, rejected>>
                ELSE re_off(out, g.rest, in_sampling,
                            "Exception: Failed to set frx", FALSE)
             /\ UNCHANGED locals

\* compute_swr_and_return_loss calls np.complex once per item of re: numpy
\* releases from 1.24 on have no np.complex and raise AttributeError there,
\* older ones compute the value.  Both builds are admitted.
NumpyHasComplex == {TRUE, FALSE}

\* line 374: the default of the parameter z0, in ohm
z0 == 50

\* lines 387-390 on the arrays re_, im_: the exception that ends the call
\* ("none" when it returns).  Without np.complex the first item raises
\* AttributeError; with it (z - z0)/(z + z0) raises ZeroDivisionError at
\* the first item whose z + z0 is the complex zero, re -50.0 and im 0.0 or
\* -0.0 (z0 is 50.).
compute_swr_raises(re_, im_, has) ==
    LET minus_z0(e) == /\ e.tag = "dev"
                       /\ e.v.kind = "finite"
                       /\ dbl_add(e.v, ratio_double(1, big(z0), big(1))).mant = <<>>
        zero(e) == \/ e.tag = "pre" /\ e.v = 0
                   \/ e.tag = "dev" /\ e.v.kind = "finite" /\ e.v.mant = <<>>
    IN  IF Len(re_) = 0 THEN "none"
        ELSE IF ~has THEN "AttributeError"
        ELSE IF \E i \in 1..Len(re_) : minus_z0(re_[i]) /\ zero(im_[i])
          THEN "ZeroDivisionError"
        ELSE "none"

\* lines 555-578: one iteration of the loop up to plot_results
ReadSample ==
    /\ UNCHANGED <<framer, api, engine, reader>>
    /\ pc = "loop"
    /\ IF stopscan
         THEN /\ pc' = "finish"
              /\ UNCHANGED <<flags, port, exit, locals, rejected>>
         ELSE
           LET l     == readline(sp_in)
               x     == l.line
               parts == split(x)
               i     == n + 1
           IN  /\ nread' = IF Len(parts) = 3 THEN nread + 1 ELSE nread
               /\ IF BytesEqStr(x, ERRORstr)
                    THEN /\ re_off(sp_out, l.rest, in_sampling,
                                   "Exception: Processing canceled by user", FALSE)
                         /\ UNCHANGED <<req, n, arrays, rtl_len, pen>>
                  ELSE IF Len(x) # 2
                    \* f, rf, zf = x.split(b','), then float() of each
                    THEN IF Len(parts) # 3
                           THEN /\ Leave("ValueError", sp_out, l.rest, in_sampling)
                                /\ UNCHANGED <<req, n, arrays, rtl_len, pen>>
                         ELSE \E f \in {float(parts[1])}, rf \in {float(parts[2])},
                                 zf \in {float(parts[3])} :
                         IF ~f.ok
                           THEN /\ Leave("ValueError", sp_out, l.rest, in_sampling)
                                /\ UNCHANGED <<req, n, arrays, rtl_len, pen>>
                         ELSE IF positive(f) /\ ~rf.ok
                           THEN /\ Leave("ValueError", sp_out, l.rest, in_sampling)
                                /\ freqlist' = [freqlist EXCEPT ![i] = stored(f)]
                                /\ UNCHANGED <<req, n, rx, zx, rtl_len, pen>>
                         ELSE IF positive(f) /\ ~zf.ok
                           THEN /\ Leave("ValueError", sp_out, l.rest, in_sampling)
                                /\ freqlist' = [freqlist EXCEPT ![i] = stored(f)]
                                /\ rx' = [rx EXCEPT ![i] = stored(rf)]
                                /\ UNCHANGED <<req, n, zx, rtl_len, pen>>
                         ELSE /\ IF positive(f)
                                   THEN /\ freqlist' = [freqlist EXCEPT ![i] = stored(f)]
                                        /\ rx' = [rx EXCEPT ![i] = stored(rf)]
                                        /\ zx' = [zx EXCEPT ![i] = stored(zf)]
                                   ELSE /\ freqlist' = [freqlist EXCEPT ![i] = NaN]
                                        /\ rx' = [rx EXCEPT ![i] = NaN]
                                        /\ zx' = [zx EXCEPT ![i] = NaN]
                              \* swr, rtl computed from rx[0:n], zx[0:n]
                              /\ \E has \in NumpyHasComplex :
                                 \E raised \in {compute_swr_raises(
                                     SubSeq(rx, 1, n), SubSeq(zx, 1, n), has)} :
                                   IF raised # "none"
                                     THEN /\ Leave(raised, sp_out,
                                                   l.rest, in_sampling)
                                          /\ UNCHANGED <<req, n, rtl_len, pen>>
                                     ELSE /\ rtl_len' = n
                                          /\ pc' = "plot"
                                          /\ sp_in' = l.rest
                                          /\ UNCHANGED <<flags, sp_out, exit,
                                                         req, n, pen, rejected>>
                  \* a line of two bytes is skipped: the for statement
                  \* assigns the next index, or ends and leaves n as it is
                  ELSE /\ IF n + 1 < LoopLen(req.nfreq)
                            THEN n' = n + 1 /\ pc' = "loop"
                            ELSE n' = n /\ pc' = "finish"
                       /\ sp_in' = l.rest
                       /\ UNCHANGED <<flags, sp_out, exit, req, arrays,
                                      rtl_len, pen, rejected>>

\* lines 579-584: plot_results returns from processEvents() and its pen is
\* bound; n += 1, and the for statement goes on with that index or ends
PlotReturn ==
    /\ UNCHANGED <<framer, api, engine, reader>>
    /\ pc = "plot"
    /\ pen' = TRUE
    /\ n' = n + 1
    /\ pc' = IF n + 1 < LoopLen(req.nfreq) THEN "loop" ELSE "finish"
    /\ UNCHANGED <<flags, port, exit, req, arrays, rtl_len, nread, rejected>>

\* lines 585-589: after the loop
Finish ==
    /\ UNCHANGED <<framer, api, engine, reader>>
    /\ pc = "finish"
    /\ IF rtl_len = 0
         \* np.fft.ifft of an empty array raises ValueError
         THEN Leave("ValueError", sp_out, sp_in, FALSE)
         ELSE IF ~pen
         \* pen is used before any iteration has assigned it
         THEN Leave("UnboundLocalError", sp_out, sp_in, FALSE)
         ELSE re_off(sp_out, sp_in, FALSE, "return", FALSE)
    /\ UNCHANGED locals

Next ==
    \/ ReSample
    \/ StopScan
    \/ resetAA30
    \/ LoadScan
    \/ Quit
    \/ ReOn
    \/ SetFQ
    \/ SetSW
    \/ SendFRX
    \/ ReadSample
    \/ PlotReturn
    \/ Finish

Spec == Init /\ [][Next]_vars

\* ------------------------------------------------ the line framer alone
\* get_re run on what the device sends before it falls silent: any
\* sequence of up to MaxPieces pieces, a piece being a line end, the text
\* OK, a digit, or a lone CR or LF.
Pieces == {eol, OKstr, <<"5">>, <<CR>>, <<LF>>}

RECURSIVE Inputs(_)
Inputs(k) ==
    IF k = 0 THEN {<<>>}
    ELSE LET shorter == Inputs(k - 1)
         IN  shorter \cup {p \o i : p \in Pieces, i \in shorter}

InitFramer ==
    /\ InitSweep
    /\ ApiNew
    /\ EngineIdle
    /\ ReaderIdle
    /\ fin \in Inputs(MaxPieces)
    /\ fres = Pending

\* lines 601-636: one call of get_re
GetRe ==
    /\ fres = Pending
    /\ fres' = get_re(fin)
    /\ UNCHANGED <<fin, sweeper, api, engine, reader>>

NextFramer == GetRe

SpecFramer == InitFramer /\ [][NextFramer]_vars

\* ------------------------------------------------- rigexpert_analyzer
\* src/rigexpert_api.py is Python 2 source: the port is written and read
\* as str, and a failing assert raises AssertionError.

\* serial.Serial.readline(): the bytes up to and including the next LF, or
\* what has arrived when the read times out
RECURSIVE ser_readline_loop(_, _)
ser_readline_loop(inp, line) ==
    IF inp = <<>> THEN [line |-> line, rest |-> inp]
    ELSE IF Head(inp) = LF THEN [line |-> Append(line, LF), rest |-> Tail(inp)]
    ELSE ser_readline_loop(Tail(inp), Append(line, Head(inp)))

ser_readline(inp) == ser_readline_loop(inp, <<>>)

\* lines 54-56 and 68-70: the first line whose length is not 2
RECURSIVE skip_ahead(_)
skip_ahead(inp) ==
    LET l == ser_readline(inp)
    IN  IF Len(l.line) = 2 THEN skip_ahead(l.rest) ELSE l

\* Python slice r[:-2]
DropLast2(r) == IF Len(r) <= 2 THEN <<>> ELSE SubSeq(r, 1, Len(r) - 2)

\* lines 52-59, after the write: the value returned and the bytes left
command_scalar(inp) ==
    LET l == skip_ahead(inp)
    IN  [r |-> DropLast2(l.line), rest |-> l.rest]

\* [float(li) for li in l]: the numbers of a line, ok = FALSE for ValueError
floats(fields) ==
    LET fs == [i \in 1..Len(fields) |-> float_py2(fields[i])]
    IN  [ok  |-> \A i \in 1..Len(fields) : fs[i].ok,
         row |-> [i \in 1..Len(fields) |-> number(fs[i])]]

\* lines 72-76: the loop of _command_vector
RECURSIVE vector_loop(_, _, _)
vector_loop(inp, lines, acc) ==
    IF lines = 0 THEN [exit |-> "return", rows |-> acc, rest |-> inp]
    ELSE LET l == ser_readline(inp)
             f == floats(split(l.line))
         IN  IF ~f.ok THEN [exit |-> "ValueError", rows |-> acc, rest |-> l.rest]
             ELSE vector_loop(l.rest, lines - 1, Append(acc, f.row))

\* lines 61-78, after the write: the first line that is not blank is read
\* and dropped, then `lines` lines are parsed
command_vector(inp, lines) == vector_loop(skip_ahead(inp).rest, lines, <<>>)

\* lines 46-50: si[0], si[1], si[2] of every row (IndexError on a short row)
sweep_result(v) ==
    IF v.exit # "return" THEN [exit |-> v.exit, result |-> <<>>]
    ELSE IF \E i \in 1..Len(v.rows) : Len(v.rows[i]) < 3
      THEN [exit |-> "IndexError", result |-> <<>>]
    ELSE [exit |-> "return",
          result |-> <<[i \in 1..Len(v.rows) |-> v.rows[i][1]],
                       [i \in 1..Len(v.rows) |-> v.rows[i][2]],
                       [i \in 1..Len(v.rows) |-> v.rows[i][3]]>>]

\* the device: an answer to FQ, SW or OFF is OK after some blank lines, an
\* error line, or nothing
ApiScalarResponses ==
    {Repeat(eol, k) \o OKLine : k \in 0..MaxBlank} \cup {ERRORLine, <<>>}

\* the i-th sample line of a stream: frequency i, r 5, x 0
DigitChar(i) ==
    CASE i = 0 -> "0" [] i = 1 -> "1" [] i = 2 -> "2" [] i = 3 -> "3"
      [] i = 4 -> "4" [] i = 5 -> "5" [] i = 6 -> "6" [] i = 7 -> "7"
      [] i = 8 -> "8" [] i = 9 -> "9"
SampleLine(i) == <<DigitChar(i), ",", "5", ",", "0", CR, LF>>

RECURSIVE Samples(_, _)
Samples(i, m) == IF i > m THEN <<>> ELSE SampleLine(i) \o Samples(i + 1, m)

\* an answer to FRX<npoints>: blank lines, npoints or npoints+1 sample
\* lines and OK; an error line; or nothing
ApiFrxResponses(npoints) ==
    {Repeat(eol, k) \o Samples(1, m) \o OKLine :
        k \in 0..MaxBlank, m \in {npoints, npoints + 1}}
      \cup {ERRORLine, <<>>}

\* arguments of the calls, in Hz
ApiFreqs == {0, 7000000, 13000000}
ApiSpans == {0, 10000000}

InitApi ==
    /\ InitSweep
    /\ FramerIdle
    /\ ApiNew
    /\ EngineIdle
    /\ ReaderIdle

\* the record of a call: its name and argument, the value _command_scalar
\* returned, how the call ended and what it returned
ApiCall(c, a, r, how, res) ==
    api_last' = [call |-> c, arg |-> a, r |-> r, exit |-> how, result |-> res,
                 tick |-> 1 - api_last.tick]

\* a write on a closed port raises before anything is sent
ClosedPort(c, a) ==
    /\ ApiCall(c, a, <<>>, "SerialException", <<>>)
    /\ ser_out' = <<>>
    /\ ser_answer' = <<>>
    /\ UNCHANGED <<ser_in, self_cfreq_hz, self_span_hz, ser_open,
                   fq_acked, sw_acked>>

\* the asserts of lines 29 and 34: the acknowledgement must be 'OK'
Acked_always(r) == TRUE
Acked(r) == r = OKstr

\* lines 28-30
cfreq ==
    /\ Len(ser_in) <= MaxStale
    /\ UNCHANGED <<sweeper, framer, engine, reader>>
    /\ \E freq \in ApiFreqs :
         IF ~ser_open THEN ClosedPort("cfreq", freq)
         ELSE \E resp \in ApiScalarResponses :
                LET c == command_scalar(ser_in \o resp)
                IN  /\ ser_out' = <<[cmd |-> "FQ", arg |-> freq]>>
                    /\ ser_in' = c.rest
                    /\ ser_answer' = resp
                    /\ IF Acked(c.r)
                         THEN /\ self_cfreq_hz' = freq
                              /\ fq_acked' = TRUE
                              /\ ApiCall("cfreq", freq, c.r, "return", <<>>)
                         ELSE /\ ApiCall("cfreq", freq, c.r, "AssertionError", <<>>)
                              /\ UNCHANGED <<self_cfreq_hz, fq_acked>>
                    /\ UNCHANGED <<self_span_hz, ser_open, sw_acked>>

\* lines 33-35
span ==
    /\ Len(ser_in) <= MaxStale
    /\ UNCHANGED <<sweeper, framer, engine, reader>>
    /\ \E hz \in ApiSpans :
         IF ~ser_open THEN ClosedPort("span", hz)
         ELSE \E resp \in ApiScalarResponses :
                LET c == command_scalar(ser_in \o resp)
                IN  /\ ser_out' = <<[cmd |-> "SW", arg |-> hz]>>
                    /\ ser_in' = c.rest
                    /\ ser_answer' = resp
                    /\ IF Acked(c.r)
                         THEN /\ self_span_hz' = hz
                              /\ sw_acked' = TRUE
                              /\ ApiCall("span", hz, c.r, "return", <<>>)
                         ELSE /\ ApiCall("span", hz, c.r, "AssertionError", <<>>)
                              /\ UNCHANGED <<self_span_hz, sw_acked>>
                    /\ UNCHANGED <<self_cfreq_hz, ser_open, fq_acked>>

\* the asserts of lines 39-41
SweepReady_any(c, s, npoints) == TRUE
SweepReady(c, s, npoints) == c # 0 /\ s # 0 /\ npoints > 0

\* lines 38-50
sweep ==
    /\ Len(ser_in) <= MaxStale
    /\ UNCHANGED <<sweeper, framer, engine, reader>>
    /\ \E npoints \in 0..MaxNpoints :
         IF ~SweepReady(self_cfreq_hz, self_span_hz, npoints)
           THEN /\ ApiCall("sweep", npoints, <<>>, "AssertionError", <<>>)
                /\ ser_out' = <<>>
                /\ ser_answer' = <<>>
                /\ UNCHANGED <<ser_in, self_cfreq_hz, self_span_hz, ser_open,
                               fq_acked, sw_acked>>
         ELSE IF ~ser_open THEN ClosedPort("sweep", npoints)
         ELSE \E resp \in ApiFrxResponses(npoints) :
              \E v \in {command_vector(ser_in \o resp, npoints)} :
                LET res == sweep_result(v)
                IN  /\ ser_out' = <<[cmd |-> "FRX", arg |-> npoints]>>
                    /\ ser_in' = v.rest
                    /\ ser_answer' = resp
                    /\ ApiCall("sweep", npoints, <<>>, res.exit, res.result)
                    /\ UNCHANGED <<self_cfreq_hz, self_span_hz, ser_open,
                                   fq_acked, sw_acked>>

\* lines 23-25
close ==
    /\ Len(ser_in) <= MaxStale
    /\ UNCHANGED <<sweeper, framer, engine, reader>>
    /\ IF ~ser_open THEN ClosedPort("close", 0)
       ELSE \E resp \in ApiScalarResponses :
              LET c == command_scalar(ser_in \o resp)
              IN  /\ ser_out' = <<[cmd |-> "OFF", arg |-> NoArg]>>
                  /\ ser_in' = c.rest
                  /\ ser_answer' = resp
                  /\ IF c.r = OKstr
                       THEN /\ ser_open' = FALSE
                            /\ ApiCall("close", 0, c.r, "return", <<>>)
                       ELSE /\ ser_open' = TRUE
                            /\ ApiCall("close", 0, c.r, "AssertionError", <<>>)
                  /\ UNCHANGED <<self_cfreq_hz, self_span_hz, fq_acked, sw_acked>>

NextApi ==
    \/ cfreq
    \/ span
    \/ sweep
    \/ close

SpecApi == InitApi /\ [][NextApi]_vars

\* ------------------------------------- compute_swr_and_return_loss
\* Floats are exact: a number is a ratio of whole numbers in lowest terms,
\* beside np.nan, +inf and -inf.
RECURSIVE Gcd(_, _)
Gcd(a, b) == IF b = 0 THEN a ELSE Gcd(b, a % b)
Abs(a) == IF a < 0 THEN -a ELSE a

\* the float p/q, q # 0
Ratio(p, q) ==
    LET g == Gcd(Abs(p), Abs(q))
        sg == IF q < 0 THEN -1 ELSE 1
    IN  [tag |-> "ratio", v |-> <<sg * (p \div g), sg * (q \div g)>>]
PlusInf  == [tag |-> "inf", v |-> <<1, 0>>]
MinusInf == [tag |-> "inf", v |-> <<-1, 0>>]
NotANumber == [tag |-> "nan", v |-> <<0, 0>>]
Num(f) == f.v[1]
Den(f) == f.v[2]

\* np.abs of the complex number a + jb: its modulus, for the numbers whose
\* modulus is whole
hypot(a, b) ==
    IF b = 0 THEN Abs(a)
    ELSE IF a = 0 THEN Abs(b)
    ELSE CHOOSE k \in 0..(Abs(a) + Abs(b)) : k * k = a * a + b * b

\* lines 389-390: is z + z0 the complex zero (the division raises)
divides_by_zero(re_i, im_i) ==
    re_i # NaN /\ im_i # NaN /\ re_i.v + z0 = 0 /\ im_i.v = 0

\* lines 389-390: np.abs((z - z0)/(z + z0)) with z = complex(re[i], im[i])
reflection(re_i, im_i) ==
    IF re_i = NaN \/ im_i = NaN THEN NotANumber
    ELSE Ratio(hypot(re_i.v - z0, im_i.v), hypot(re_i.v + z0, im_i.v))

\* np.abs(rho - 1) < 1e-3 on the doubles of the code, for the double
\* nearest to the ratio rho.  The two ratios at the limit differ: the double
\* nearest to 1001/1000 is 1.0009999999999999 and passes the test, the double
\* nearest to 999/1000 differs from 1 by 0.0010000000000000009 and does not.
within_1e3(rho) ==
    \/ 1000 * Abs(Num(rho) - Den(rho)) < Den(rho)
    \/ rho.v = <<1001, 1000>>

\* line 391: np.abs(rho[i] - 1) < 1e-3 (False for nan and inf)
near_one_never(rho) == FALSE
near_one(rho) ==
    /\ rho.tag = "ratio"
    /\ within_1e3(rho)

\* lines 390-392: the value stored in rho[i]
clamped(rho) == IF near_one(rho) THEN Ratio(1, 1000) ELSE rho

\* line 393, one element: (1.0 + rho)/(1.0 - rho); numpy divides by zero
\* to inf
swr_of(rho) ==
    IF rho.tag # "ratio" THEN NotANumber
    ELSE IF Den(rho) - Num(rho) = 0 THEN PlusInf
    ELSE Ratio(Den(rho) + Num(rho), Den(rho) - Num(rho))

\* line 394, one element: 20. * np.log10(rho); the logarithm is kept as
\* the number it was taken of, np.log10(0.) is -inf, np.log10(inf) is inf
\* and the logarithm of nan or of a negative number is nan
rtl_of(rho) ==
    IF rho = PlusInf THEN PlusInf
    ELSE IF rho.tag # "ratio" \/ Num(rho) < 0 THEN NotANumber
    ELSE IF Num(rho) = 0 THEN MinusInf
    ELSE [tag |-> "20*log10", v |-> rho.v]

\* lines 372-395: how the call ends and what it returns; has says whether
\* this numpy still has np.complex
compute_swr_and_return_loss(re_, im_, has) ==
    LET raw == [i \in 1..Len(re_) |-> reflection(re_[i], im_[i])]
        rho == [i \in 1..Len(re_) |-> clamped(raw[i])]
    IN  IF Len(re_) > 0 /\ ~has
          THEN [exit |-> "AttributeError", rho |-> <<>>, swr |-> <<>>,
                rtl |-> <<>>]
        ELSE IF \E i \in 1..Len(re_) : divides_by_zero(re_[i], im_[i])
          THEN [exit |-> "ZeroDivisionError", rho |-> <<>>, swr |-> <<>>,
                rtl |-> <<>>]
        ELSE [exit |-> "return", rho |-> rho,
              swr |-> [i \in 1..Len(re_) |-> swr_of(rho[i])],
              rtl |-> [i \in 1..Len(re_) |-> rtl_of(rho[i])]]

\* impedance samples <<resistance, reactance>> in whole ohm: matched,
\* short circuit, 100 ohm, 50 + j75, two large resistances about the clamp
\* limit (rho = 1999/2001 and rho = 999/1000), negative resistances (no
\* rho, rho = 4001/3999 and rho = 1001/1000), and an invalid sample
Impedances ==
    {<<Dev(50), Dev(0)>>, <<Dev(0), Dev(0)>>, <<Dev(100), Dev(0)>>,
     <<Dev(50), Dev(75)>>, <<Dev(100000), Dev(0)>>, <<Dev(99950), Dev(0)>>,
     <<Dev(-50), Dev(0)>>, <<Dev(-200000), Dev(0)>>, <<Dev(-100050), Dev(0)>>,
     <<NaN, NaN>>}

RECURSIVE SampleArrays(_)
SampleArrays(k) ==
    IF k = 0 THEN {<<>>}
    ELSE LET shorter == SampleArrays(k - 1)
         IN  shorter \cup {Append(a, z) : a \in {b \in shorter : Len(b) = k - 1},
                                          z \in Impedances}

InitSwr ==
    /\ InitSweep
    /\ FramerIdle
    /\ ApiNew
    /\ \E a \in SampleArrays(MaxSamples) :
         /\ re = [i \in 1..Len(a) |-> a[i][1]]
         /\ im = [i \in 1..Len(a) |-> a[i][2]]
    /\ swr_rtl = NotRun
    /\ ReaderIdle

\* one call of compute_swr_and_return_loss(re, im)
ComputeSwr ==
    /\ swr_rtl = NotRun
    /\ \E has \in NumpyHasComplex :
         swr_rtl' = compute_swr_and_return_loss(re, im, has)
    /\ UNCHANGED <<re, im, sweeper, framer, api, reader>>

NextSwr == ComputeSwr

SpecSwr == InitSwr /\ [][NextSwr]_vars

\* ------------------------------------------ get_re, one iteration a step
\* lines 613-630, one pass of the while loop: c is what read(1) gave (<<>>
\* for a timeout) and rest the bytes still unread.  While read(1) times out
\* s grows by one character a pass; the growth is followed for MaxSpin
\* characters beyond the length of buf, which no later return can depend on
\* because no byte arrives after a timeout.
Iterate(c, rest) ==
    LET buf1 == g_buf \o c
        last == buf1[Len(buf1)]
    IN  /\ g_in' = rest
        /\ g_buf' = buf1
        /\ g_reads' = 1 - g_reads
        /\ IF Len(buf1) = 0
             THEN /\ g_pc' = "return"
                  /\ g_r' = None
                  /\ UNCHANGED <<g_s, g_crlf>>
           ELSE IF last = CR
             THEN UNCHANGED <<g_s, g_crlf, g_pc, g_r>>
           ELSE IF last = LF /\ Len(buf1) < 2
             THEN /\ g_pc' = "IndexError"
                  /\ UNCHANGED <<g_s, g_crlf, g_r>>
           ELSE IF last = LF /\ buf1[Len(buf1) - 1] = CR
             THEN /\ g_crlf' = g_crlf + 1
                  /\ IF g_crlf + 1 = 2
                       THEN /\ g_pc' = "return"
                            /\ g_r' = get_re_return(g_s, rest).r
                       ELSE UNCHANGED <<g_pc, g_r>>
                  /\ UNCHANGED g_s
           ELSE /\ g_s' = IF c = <<>> /\ Len(g_s) - Len(g_buf) >= MaxSpin
                            THEN g_s
                            ELSE Append(g_s, last)
                /\ IF Slice31(buf1) = OKstr
                     THEN /\ g_pc' = "return"
                          /\ g_r' = get_re_return(Append(g_s, last), rest).r
                     ELSE UNCHANGED <<g_pc, g_r>>
                /\ UNCHANGED g_crlf

\* read(1) returns the next byte
ReadByte ==
    /\ g_pc = "loop"
    /\ g_in # <<>>
    /\ Iterate(<<Head(g_in)>>, Tail(g_in))
    /\ UNCHANGED <<sweeper, framer, api, engine>>

\* read(1) times out and returns b''
ReadTimeout ==
    /\ g_pc = "loop"
    /\ g_in = <<>>
    /\ Iterate(<<>>, <<>>)
    /\ UNCHANGED <<sweeper, framer, api, engine>>

InitReader ==
    /\ InitSweep
    /\ FramerIdle
    /\ ApiNew
    /\ EngineIdle
    /\ g_in \in Inputs(MaxPieces)
    /\ g_buf = <<>>
    /\ g_s = <<>>
    /\ g_crlf = 0
    /\ g_pc = "loop"
    /\ g_r = None
    /\ g_reads = 0

NextReader ==
    \/ ReadByte
    \/ ReadTimeout

\* the thread that runs get_re keeps running: an iteration that can be made
\* is made
SpecReader ==
    InitReader /\ [][NextReader]_vars /\ WF_vars(ReadByte) /\ WF_vars(ReadTimeout)

\* =============================================================== claims
Cmds(log) == [i \in 1..Len(log) |-> log[i].cmd]
Wrote(c) == \E i \in 1..Len(sp_out) : sp_out[i].cmd = c
LastCmd == IF sp_out = <<>> THEN "" ELSE sp_out[Len(sp_out)].cmd
LastAck == IF sp_out = <<>> THEN "-" ELSE sp_out[Len(sp_out)].ack
CountCmd(c) == Cardinality({i \in 1..Len(sp_out) : sp_out[i].cmd = c})

\* control has left the last accepted sweep / has left it by an exception
Left == pc = "idle" /\ exit # "none"
Raised == Left /\ exit # "return"

\* the line the next _readline of the loop will return
NextLine == readline(sp_in).line
Reading == pc = "loop" /\ ~stopscan

\* C1: whenever control has left a sweep whose ON command was written, by
\* return or by any exception, the last command written to the port is OFF.
C1_OffBeforeLeaving ==
    (Left /\ Wrote("ON")) => LastCmd = "OFF"

\* C2: after a sweep that ended with an exception the busy flag in_sampling
\* is false again, so the next re_sample is not ignored.
C2_ReusableAfterError ==
    Raised => in_sampling = FALSE

\* otherwise returns as many entries (<= nfreq) as sample lines read.
C4_ExactlyN ==
    (Left /\ exit = "return")
       => IF n = req.nfreq + 1
            THEN nread = req.nfreq /\ Len(freqlist) = req.nfreq
            ELSE Len(freqlist) <= req.nfreq /\ Len(freqlist) = nread

\* C5: once the loop has seen the cancel flag at a point boundary (also
\* before the first sample line), the sweep reads no further line, writes
\* OFF and returns; it does not leave by an exception.
C5_CancelReturns ==
    [][(pc = "finish" /\ stopscan /\ n <= req.nfreq /\ pc' = "idle")
         => /\ exit' = "return"
            /\ sp_out' # <<>> /\ sp_out'[Len(sp_out')].cmd = "OFF"
            /\ nread' = nread]_vars

\* C6: when the next line of the stream is the device's ERROR line, the loop
\* stops at it, OFF is written, the points before it stay as they are and
\* the sweep leaves by the exception of the ERROR branch of re_sample.
C6_ErrorLineAborts ==
    [][(Reading /\ NextLine = ERRORLine)
         => /\ pc' = "idle"
            /\ exit' = "Exception: Processing canceled by user"
            /\ sp_out' # <<>> /\ sp_out'[Len(sp_out')].cmd = "OFF"
            /\ in_sampling' = FALSE
            /\ UNCHANGED arrays]_vars

\* C7: when the next line of the stream begins with OK before all lines
\* have been read, the loop ends there without an exception: no further
\* line is read and the points read so far are the result.
C7_EarlyOkEnds ==
    [][(Reading /\ FirstN(NextLine, 2) = OKstr)
         => /\ pc' = "finish" \/ (pc' = "idle" /\ exit' = "return")
            /\ sp_in' = readline(sp_in).rest
            /\ UNCHANGED arrays]_vars

\* a sample line that is complete and neither blank, OK nor ERROR, but has
\* a frequency that is not positive or is not three numbers
BadSample(x) ==
    /\ Len(x) > 2
    /\ LastN(x, 2) = eol
    /\ FirstN(x, 2) # OKstr
    /\ x # ERRORLine
    /\ \/ Len(split(x)) # 3
       \/ \E k \in 1..3 : ~float(split(x)[k]).ok
       \/ ~positive(float(split(x)[1]))

\* C8: a bad sample line is recorded as a NaN point at its own index and the
\* sweep goes on to the progress emission and the next line; it never leaves
\* by an exception.
C8_BadLineIsNaN ==
    [][(Reading /\ BadSample(NextLine))
         => /\ pc' = "plot"
            /\ freqlist'[n + 1] = NaN
            /\ rx'[n + 1] = NaN
            /\ zx'[n + 1] = NaN]_vars

\* C9: when the answer to a setup command (ON, FQ, sw) was not OK, the only
\* thing written afterwards is OFF, and the sweep leaves by an exception
\* with OFF written.
C9_SetupFailureAborts ==
    /\ []((Left /\ LastCmd \in {"ON", "FQ", "sw"}) => LastAck = "OK")
    /\ [][(pc \in {"fq", "sw", "frx"} /\ LastAck # "OK")
            => /\ pc' = "idle"
               /\ exit' \notin {"none", "return"}
               /\ Cmds(sp_out') = Append(Cmds(sp_out), "OFF")]_vars

\* C10: when the device answers FRX<count> with count sample lines followed
\* by OK and nobody cancels, the sweep returns, every one of the first count
\* lines has become the sample of its index, and OFF was written once.
C10_StreamReadDirectly ==
    (/\ Left
     /\ ~stopscan
     /\ \E i \in 1..Len(sp_out) :
           sp_out[i].cmd = "FRX" /\ sp_out[i].answer = "stream")
       => /\ exit = "return"
          /\ CountCmd("OFF") = 1
          /\ nread >= req.nfreq
          /\ \A i \in 1..req.nfreq : freqlist[i].tag = "dev"

\* the command vocabulary of the device (module docstring, lines 7-31)
Vocabulary == {"ON", "OFF", "VER", "FQ", "SW", "FRX"}

\* C15: every command written to the port is one of ON, OFF, VER, FQ<n>,
\* SW<n>, FRX<n> in exactly that upper-case spelling.
C15_UpperCaseVocabulary ==
    \A i \in 1..Len(sp_out) : sp_out[i].cmd \in Vocabulary

\* the command name without regard to case
Upper(c) == IF c = "sw" THEN "SW" ELSE c

\* centre and span of a request in Hz, as exact numbers
Center(q) == q.start_freq * 1000 + (q.end_freq - q.start_freq) * 500
Span(q) == (q.end_freq - q.start_freq) * 1000

\* the exchange a step appends to the log of the sweep
Written == sp_out'[Len(sp_out')]
Writes == Len(sp_out') = Len(sp_out) + 1

\* C16: within one sweep ON is written first (only the OFF and ON of a
\* 'Reset AA-30' may precede it), FQ<centre> only after the answer to ON
\* was read, SW<span> (in either case of letters) only after FQ was
\* acknowledged OK, FRX<count> only after SW was acknowledged OK, where
\* centre = start + (end - start)/2 and span = end - start in Hz.
C16_SetupOrder ==
    [][Writes =>
         /\ (Written.cmd = "ON")
               => \A i \in 1..Len(sp_out) : sp_out[i].cmd \in {"OFF", "ON"}
         /\ (Written.cmd = "FQ")
               => /\ LastCmd = "ON"
                  /\ LastAck \in {"OK", "None", "text"}
                  /\ Written.arg = Center(req)
         /\ (Upper(Written.cmd) = "SW")
               => /\ LastCmd = "FQ"
                  /\ LastAck = "OK"
                  /\ Written.arg = Span(req)
         /\ (Written.cmd = "FRX")
               => /\ Upper(LastCmd) = "SW"
                  /\ LastAck = "OK"
                  /\ Written.arg = req.nfreq]_vars

\* number of points handed to plot_results by the progress emission:
\* freqlist[0:n], rx[0:n], zx[0:n], swr[0:n], rtl[0:n]
Emitted == rtl_len

\* C19: the progress emission made right after the sample of index n was
\* received holds the points 0..n, the new point included.
C19_EmitsThroughCurrent ==
    (pc = "plot") => Emitted = n + 1

\* length of the series compute_tdr returns: np.fft.ifft(rtl).real
tdr_len == rtl_len

\* C20: when a sweep returns, the return-loss series given to compute_tdr,
\* the frequency series given with it and the amplitude series it returns
\* all have the length of the result arrays.
C20_TdrOverAllPoints ==
    (Left /\ exit = "return")
       => /\ rtl_len = Len(freqlist)
          /\ tdr_len = Len(freqlist)
          /\ Len(freqlist) = Len(rx)

\* ------------------------------------------------- claims on the framer
Ran == fres # Pending
TextOnly(b) == \A i \in 1..Len(b) : b[i] \notin {CR, LF}
DropLast(b, k) == FirstN(b, Len(b) - k)

\* the input is VALUE\r\nOK\r\n with a non-empty VALUE free of CR and LF
ValueThenOk(inp) ==
    /\ Len(inp) > Len(AckOK)
    /\ LastN(inp, Len(AckOK)) = AckOK
    /\ TextOnly(DropLast(inp, Len(AckOK)))

\* C11: get_re on VALUE\r\nOK\r\n returns exactly VALUE, and on
\* \r\n\r\nOK\r\n the empty line ended by the second CRLF.
C11_ValueThenOk ==
    Ran => /\ ValueThenOk(fin)
                => fres.outcome = "return" /\ fres.r = DropLast(fin, Len(AckOK))
           /\ (fin = eol \o AckOK)
                => fres.outcome = "return" /\ fres.r = None

\* a read(1) of the run on inp came back empty: with one more byte sent the
\* run would have consumed it
TimedOut(inp) ==
    LET g == get_re(inp)
        h == get_re(Append(inp, "5"))
    IN  ~(h.outcome = g.outcome /\ h.r = g.r /\ h.rest = Append(g.rest, "5"))

\* C12: whenever a read inside get_re yields no byte, before the first byte
\* or after part of the response, get_re ends with None.
C12_TimeoutIsFailure ==
    (Ran /\ TimedOut(fin)) => (fres.outcome = "return" /\ fres.r = None)

\* the bytes a run has taken from the port
Consumed == DropLast(fin, Len(fres.rest))
CountCRLF(b) ==
    Cardinality({i \in 1..(Len(b) - 1) : b[i] = CR /\ b[i + 1] = LF})
Text(b) == SelectSeq(b, LAMBDA c : c \notin {CR, LF})
\* the response is complete: two CRLF seen, or the text so far ends with OK
CompleteAt(b) == CountCRLF(b) >= 2 \/ LastN(Text(b), 2) = OKstr

\* C17: get_re consumes no byte beyond the point where the response became
\* complete by the second CRLF or by text ending with OK.
C17_StopsWhenComplete ==
    Ran => \A k \in 0..(Len(Consumed) - 1) : ~CompleteAt(FirstN(fin, k))

RECURSIVE SkipBlank(_)
SkipBlank(b) ==
    IF Len(b) >= 2 /\ FirstN(b, 2) = eol THEN SkipBlank(SubSeq(b, 3, Len(b)))
    ELSE b
\* exactly one line, with a non-empty payload in which OK, if present, comes
\* last
OneLine(b) ==
    /\ Len(b) > 2
    /\ LastN(b, 2) = eol
    /\ TextOnly(DropLast(b, 2))
    /\ \A j \in 0..(Len(b) - 3) : LastN(FirstN(b, j), 2) # OKstr

\* C18: get_re returns the payload of the first non-blank line however many
\* blank filler lines come before it.
C18_FillersSkipped ==
    (Ran /\ OneLine(SkipBlank(fin)))
       => (fres.outcome = "return" /\ fres.r = DropLast(SkipBlank(fin), 2))

\* --------------------------------------- claims on rigexpert_analyzer
\* a step that is a call of cfreq, span, sweep or close
ApiStep == api_last'.tick # api_last.tick

\* C13: when FQ (SW) is not acknowledged with OK, cfreq() (span()) fails
\* and both cached values stay as they were; a cached value changes only
\* in the call that sets it, after an OK acknowledgement, to its argument.
C13_FailedSetKeepsCache ==
    [][/\ (ApiStep /\ api_last'.call \in {"cfreq", "span"} /\ api_last'.r # OKstr)
            => /\ api_last'.exit # "return"
               /\ UNCHANGED <<self_cfreq_hz, self_span_hz>>
       /\ (self_cfreq_hz' # self_cfreq_hz)
            => /\ api_last'.call = "cfreq"
               /\ api_last'.r = OKstr
               /\ self_cfreq_hz' = api_last'.arg
       /\ (self_span_hz' # self_span_hz)
            => /\ api_last'.call = "span"
               /\ api_last'.r = OKstr
               /\ self_span_hz' = api_last'.arg]_vars

\* a cfreq() call failed while another frequency was cached
C13_Witness ==
    /\ api_last.call = "cfreq"
    /\ api_last.exit = "AssertionError"
    /\ ser_out # <<>>
    /\ self_cfreq_hz # 0
    /\ self_cfreq_hz # api_last.arg

FrxWritten(out) == \E i \in 1..Len(out) : out[i].cmd = "FRX"

\* C14: sweep() writes FRX only if cfreq() and span() have both completed
\* with an OK acknowledgement before and npoints > 0; otherwise it fails
\* and writes nothing.  No other call writes FRX.
C14_SweepNeedsSetup ==
    [][ApiStep =>
         /\ FrxWritten(ser_out')
              => /\ api_last'.call = "sweep"
                 /\ fq_acked /\ sw_acked
                 /\ api_last'.arg > 0
         /\ (api_last'.call = "sweep"
               /\ ~(fq_acked /\ sw_acked /\ api_last'.arg > 0))
              => /\ ser_out' = <<>>
                 /\ api_last'.exit # "return"]_vars

\* a sweep wrote FRX and returned
C14_Witness ==
    /\ api_last.call = "sweep"
    /\ api_last.exit = "return"
    /\ FrxWritten(ser_out)
    /\ fq_acked /\ sw_acked

\* ---- rigexpert_analyzer.sweep and the sample lines ----

\* an answer to FRX<npoints> made of blank lines and then at least npoints
\* sample lines
SampleAnswers(npoints) ==
    {Repeat(eol, k) \o Samples(1, m) \o OKLine :
        k \in 0..MaxBlank, m \in {npoints, npoints + 1}}

\* the three arrays of the first npoints sample lines: frequencies 1..npoints,
\* every resistance 5, every reactance 0
FirstLines(npoints) ==
    <<[i \in 1..npoints |-> i], [i \in 1..npoints |-> 5],
      [i \in 1..npoints |-> 0]>>

\* a sweep call that wrote FRX on a port with no unread byte
CleanSweep ==
    /\ ApiStep
    /\ api_last'.call = "sweep"
    /\ FrxWritten(ser_out')
    /\ ser_in = <<>>

\* C21: a sweep(npoints) answered on a clean port by optional blank lines and
\* then sample lines returns the three arrays of the first npoints sample
\* lines, in order, none of them dropped
C21_SweepReturnsFirstLines ==
    [][(CleanSweep /\ ser_answer' \in SampleAnswers(api_last'.arg))
          => /\ api_last'.exit = "return"
             /\ api_last'.result = FirstLines(api_last'.arg)]_vars

\* ---- compute_swr_and_return_loss ----

\* the call returned its two arrays
Computed == swr_rtl.exit = "return"

\* |rho - 1| < 1e-3 for a reflection coefficient rho, as the doubles of
\* the code decide it
WithinClamp(rho) ==
    /\ rho.tag = "ratio"
    /\ within_1e3(rho)

\* the value the clamp law prescribes for the reflection coefficient rho
ClampLaw(rho) == IF WithinClamp(rho) THEN Ratio(1, 1000) ELSE rho

\* C22: in a call that returns, every sample whose reflection coefficient is
\* within 1e-3 of 1 is computed with rho = 1e-3 and every other sample with
\* its own rho, for SWR and for return loss, and no SWR is a division by zero
C22_ClampLaw ==
    Computed =>
      \A i \in 1..Len(re) :
        LET rho == ClampLaw(reflection(re[i], im[i]))
        IN  /\ swr_rtl.rho[i] = rho
            /\ swr_rtl.swr[i] = swr_of(rho)
            /\ swr_rtl.rtl[i] = rtl_of(rho)
            /\ rho # Ratio(1, 1)
            /\ swr_rtl.swr[i] # PlusInf

\* a returned call with a sample near, but not at, total reflection that was
\* clamped, and a sample just outside the limit that was not
C22_Witness ==
    /\ Computed
    /\ \E i, j \in 1..Len(re) :
         LET a == reflection(re[i], im[i])
             b == reflection(re[j], im[j])
         IN  /\ WithinClamp(a) /\ a # Ratio(1, 1)
             /\ swr_rtl.rho[i] = Ratio(1, 1000)
             /\ b.tag = "ratio" /\ ~WithinClamp(b)
             /\ 1000 * Abs(Num(b) - Den(b)) = Den(b)
             /\ swr_rtl.rho[j] = b

\* the sample z = z0: resistance 50, reactance 0
Matched(i) == re[i].v = z0 /\ im[i].v = 0 /\ re[i] # NaN /\ im[i] # NaN

\* C23: for a matched sample the reflection coefficient is 0, the SWR is 1
\* and the return loss is the floor 20*log10(1e-3) of the clamp rule, not
\* the logarithm of zero
C23_MatchedReturnLossFloor ==
    Computed =>
      \A i \in 1..Len(re) :
        Matched(i) =>
          /\ reflection(re[i], im[i]) = Ratio(0, 1)
          /\ swr_rtl.swr[i] = Ratio(1, 1)
          /\ swr_rtl.rtl[i] = rtl_of(Ratio(1, 1000))
          /\ swr_rtl.rtl[i] # MinusInf

\* ---- command and response stay synchronised ----

\* places where the next command of a sweep is about to be written and its
\* acknowledgement read by get_re
BeforeCommand == pc \in {"re_on", "fq", "sw"}

\* C24: no byte sent by the device is unread when a sweep has ended, on any
\* path, or when ON, FQ or SW is about to be written, so that get_re reads
\* the answer to that command and nothing older
C24_Synchronised ==
    (Left \/ BeforeCommand) => sp_in = <<>>

\* ---- the line framer terminates ----

\* C25: whatever bytes the device sent before it fell silent, a call of
\* get_re eventually ends
C25_GetReTerminates == <>(g_pc # "loop")

\* ---- no placeholder data in a result ----

\* the entry was filled in before the sweep and never replaced
Placeholder(e) == e.tag = "pre"

\* C26: in the arrays a sweep returns every index holds the values of a
\* sample line of the device or the NaN marker, never the value filled in
\* before the sweep (interpolated frequency, resistance 0, reactance 0)
C26_NoPlaceholderReturned ==
    (Left /\ exit = "return") =>
      \A i \in 1..Len(freqlist) :
        /\ ~Placeholder(freqlist[i])
        /\ ~Placeholder(rx[i])
        /\ ~Placeholder(zx[i])

====
